---------------------------- MODULE Spec2Model ----------------------------
(***************************************************************************)
(* Model of the image-search function app: the Event Grid handler          *)
(* process_blob (subject parsing, eligibility, enrichment, index upload)   *)
(* and the HTTP handler query_endpoint (body validation, text embedding,   *)
(* vector search).                                                         *)
(*                                                                         *)
(* Strings are sequences of one-character strings, so that split, join,    *)
(* lower and the URL template are computed as the code computes them.      *)
(***************************************************************************)
EXTENDS Integers, Sequences, FiniteSets, TLC

VARIABLES env, index, last, arg

vars == <<env, index, last, arg>>

(***************************************************************************)
(* Bounds of the model.                                                    *)
(***************************************************************************)
\* longest object name (in characters) drawn for the eligibility filter
MaxNameLen == 5
\* most slash-delimited segments of a subject drawn for the subject parser
MaxSegs == 6

(***************************************************************************)
(* Python's None: a value no string of the model equals (every string is  *)
(* a sequence of one-character strings).                                   *)
(***************************************************************************)
None == <<"<None>">>

(***************************************************************************)
(* String helpers: str.lower, str.split(sep), sep.join, list.index, in.    *)
(***************************************************************************)
LowerMap ==
    ("A" :> "a") @@ ("B" :> "b") @@ ("C" :> "c") @@ ("D" :> "d") @@ ("E" :> "e") @@ ("F" :> "f") @@
    ("G" :> "g") @@ ("H" :> "h") @@ ("I" :> "i") @@ ("J" :> "j") @@ ("K" :> "k") @@ ("L" :> "l") @@
    ("M" :> "m") @@ ("N" :> "n") @@ ("O" :> "o") @@ ("P" :> "p") @@ ("Q" :> "q") @@ ("R" :> "r") @@
    ("S" :> "s") @@ ("T" :> "t") @@ ("U" :> "u") @@ ("V" :> "v") @@ ("W" :> "w") @@ ("X" :> "x") @@
    ("Y" :> "y") @@ ("Z" :> "z")

Contains(s, c) == \E i \in 1..Len(s) : s[i] = c

RECURSIVE FindFrom(_, _, _)
\* s.find(c, from): the first position of c in s at or after from (0 when absent)
FindFrom(s, c, from) ==
    IF from > Len(s) THEN 0
    ELSE IF s[from] = c THEN from
    ELSE FindFrom(s, c, from + 1)

\* s.find(c)
Find(s, c) == FindFrom(s, c, 1)

LowerChar(c) == IF c \in DOMAIN LowerMap THEN LowerMap[c] ELSE c

RECURSIVE LowerFrom(_, _)
LowerFrom(s, i) ==
    IF i > Len(s) THEN <<>>
    ELSE <<LowerChar(s[i])>> \o LowerFrom(s, i + 1)

\* s.lower()
Lower(s) == LowerFrom(s, 1)

RECURSIVE RFindFrom(_, _, _)
RFindFrom(s, c, from) ==
    IF from < 1 THEN 0
    ELSE IF s[from] = c THEN from
    ELSE RFindFrom(s, c, from - 1)

\* s.rfind(c): the last position of c in s (0 when absent)
RFind(s, c) == RFindFrom(s, c, Len(s))

RECURSIVE SplitFrom(_, _, _, _)
SplitFrom(s, sep, i, start) ==
    IF i > Len(s) THEN <<SubSeq(s, start, Len(s))>>
    ELSE IF s[i] = sep
    THEN <<SubSeq(s, start, i - 1)>> \o SplitFrom(s, sep, i + 1, i + 1)
    ELSE SplitFrom(s, sep, i + 1, start)

\* s.split(sep)
Split(s, sep) == SplitFrom(s, sep, 1, 1)

RECURSIVE JoinFrom(_, _, _)
JoinFrom(parts, sep, i) ==
    IF i > Len(parts) THEN <<>>
    ELSE IF i = Len(parts) THEN parts[i]
    ELSE parts[i] \o <<sep>> \o JoinFrom(parts, sep, i + 1)

\* sep.join(parts)
Join(parts, sep) == JoinFrom(parts, sep, 1)

\* parts.index(x): position of the first element equal to x
ListIndex(parts, x) == Find(parts, x)

\* parts[-1]
LastOf(parts) == parts[Len(parts)]

(***************************************************************************)
(* String literals of the code.                                            *)
(***************************************************************************)
S_containers == <<"c","o","n","t","a","i","n","e","r","s">>
S_blobs == <<"b","l","o","b","s">>
S_https == <<"h","t","t","p","s",":","/","/">>
S_blob_domain == <<".","b","l","o","b",".","c","o","r","e",".",
                   "w","i","n","d","o","w","s",".","n","e","t","/">>
S_acct == <<"a","c","c","t">>
S_BlobCreated == "Microsoft.Storage.BlobCreated"

image_extensions ==
    { <<"j","p","g">>, <<"j","p","e","g">>, <<"p","n","g">>, <<"g","i","f">>,
      <<"b","m","p">>, <<"w","e","b","p">>, <<"t","i","f","f">>, <<"t","i","f">> }

(***************************************************************************)
(* Process configuration: an environment variable is unset (None) or set.  *)
(***************************************************************************)
EnvNames == {"AZURE_STORAGE_ACCOUNT_NAME", "AZURE_AI_VISION_ENDPOINT",
             "AZURE_AI_VISION_KEY", "AZURE_SEARCH_ENDPOINT",
             "AZURE_SEARCH_ADMIN_KEY", "AZURE_SEARCH_INDEX_NAME"}

EnvAllSet == [n \in EnvNames |-> IF n = "AZURE_STORAGE_ACCOUNT_NAME"
                                 THEN S_acct ELSE <<"s","e","t">>]

\* every variable set, or exactly one of them unset
Envs == {EnvAllSet} \cup
        { [EnvAllSet EXCEPT ![n] = None] : n \in EnvNames }

\* Python truthiness of os.environ.get(name): unset and "" are falsy
Truthy(v) == v # None /\ v # <<>>

(***************************************************************************)
(* extract_blob_url_from_subject                                           *)
(***************************************************************************)
ValueError == [ok |-> FALSE, error |-> "ValueError", url |-> <<>>]

NoError == ""

\* faulty variant: the check that a segment follows each token is missing
UrlOfParts(parts, container_idx, blob_idx, storage_account) ==
    IF ~Truthy(storage_account) THEN ValueError
    ELSE [ok |-> TRUE, error |-> NoError,
          url |-> S_https \o storage_account \o S_blob_domain
                  \o (IF container_idx + 1 > Len(parts) THEN <<>>
                      ELSE parts[container_idx + 1])
                  \o <<"/">>
                  \o Join(SubSeq(parts, blob_idx + 1, Len(parts)), "/")]

extract_blob_url_unchecked(subject, e) ==
    IF subject = None \/ subject = <<>> THEN ValueError
    ELSE IF Len(Split(subject, "/")) < 6
            \/ ~Contains(Split(subject, "/"), S_containers)
            \/ ~Contains(Split(subject, "/"), S_blobs)
    THEN ValueError
    ELSE UrlOfParts(Split(subject, "/"),
                    Find(Split(subject, "/"), S_containers),
                    Find(Split(subject, "/"), S_blobs),
                    e["AZURE_STORAGE_ACCOUNT_NAME"])

extract_blob_url_from_subject(subject, e) ==
    IF subject = None \/ subject = <<>> THEN ValueError
    ELSE
    LET parts == Split(subject, "/")
        hasC  == Contains(parts, S_containers)
        hasB  == Contains(parts, S_blobs)
    IN  IF Len(parts) < 6 \/ ~hasC \/ ~hasB THEN ValueError
        ELSE
        LET container_idx == ListIndex(parts, S_containers)
            blob_idx      == ListIndex(parts, S_blobs)
        IN  IF container_idx + 1 > Len(parts) \/ blob_idx + 1 > Len(parts)
            THEN ValueError
            ELSE
            LET container_name  == parts[container_idx + 1]
                blob_name       == Join(SubSeq(parts, blob_idx + 1, Len(parts)), "/")
                storage_account == e["AZURE_STORAGE_ACCOUNT_NAME"]
            IN  IF ~Truthy(storage_account) THEN ValueError
                ELSE [ok |-> TRUE, error |-> NoError,
                      url |-> S_https \o storage_account \o S_blob_domain
                              \o container_name \o <<"/">> \o blob_name]

(***************************************************************************)
(* urlparse(url).path for the URLs the parser builds (scheme https, then   *)
(* "//" and a network location): the location ends at the first of / ? #,  *)
(* the path at the first # or ?, and at a ; in its last segment.           *)
(***************************************************************************)
CutAt(s, c) == IF Contains(s, c) THEN SubSeq(s, 1, Find(s, c) - 1) ELSE s

UrlPath(url) ==
    LET rest    == SubSeq(url, Len(S_https) + 1, Len(url))
        stops   == {Find(rest, c) : c \in {"/", "?", "#"}} \ {0}
        start   == IF stops = {} THEN Len(rest) + 1
                   ELSE CHOOSE i \in stops : \A j \in stops : i <= j
        tail    == SubSeq(rest, start, Len(rest))
        noquery == CutAt(CutAt(tail, "#"), "?")
        semi    == FindFrom(noquery, ";", IF RFind(noquery, "/") = 0 THEN 1
                                          ELSE RFind(noquery, "/"))
    IN  IF semi = 0 THEN noquery ELSE SubSeq(noquery, 1, semi - 1)

(***************************************************************************)
(* is_image_file                                                           *)
(***************************************************************************)
\* faulty variant: the extension is compared without lower-casing
is_image_file_case_sensitive(url) ==
    IF Contains(UrlPath(url), ".")
    THEN LastOf(Split(UrlPath(url), ".")) \in image_extensions
    ELSE FALSE

is_image_file(url) ==
    LET path == UrlPath(url)
        file_extension == IF Contains(path, ".")
                          THEN LastOf(Split(Lower(path), "."))
                          ELSE <<>>
    IN  file_extension \in image_extensions

(***************************************************************************)
(* External services: the answers they can give to one call.               *)
(***************************************************************************)
Vectors == { <<1, 0>>, <<0, 1>> }

\* the vectorize endpoint: status 0 stands for a transport failure (timeout,
\* connection error); a 200 body carries a "vector" field or none
EmbeddingResponses ==
    { [status |-> 0,   hasVector |-> FALSE, vector |-> <<>>],
      [status |-> 500, hasVector |-> FALSE, vector |-> <<>>],
      [status |-> 200, hasVector |-> FALSE, vector |-> <<>>] } \cup
    { [status |-> 200, hasVector |-> TRUE, vector |-> v] : v \in Vectors }

\* the image-analysis endpoint: an error, or a result with or without a caption
NoAnalysis == [caption |-> None, tags |-> <<>>]

AnalysisResponses ==
    { [ok |-> FALSE, result |-> NoAnalysis],
      [ok |-> TRUE,  result |-> [caption |-> <<"c","a","t">>, tags |-> <<"pet">>]] }

\* the index service's answer to upload_documents
UploadResponses == {"exception", "empty", "rejected", "succeeded"}

(***************************************************************************)
(* vectorize_image_embedding                                               *)
(***************************************************************************)
vectorize_image_embedding(image_url, e, er) ==
    IF ~Truthy(e["AZURE_AI_VISION_ENDPOINT"]) \/ ~Truthy(e["AZURE_AI_VISION_KEY"])
    THEN [ok |-> FALSE, called |-> FALSE, vector |-> <<>>]
    ELSE IF er.status = 0
    THEN [ok |-> FALSE, called |-> TRUE, vector |-> <<>>]
    ELSE IF er.status # 200
    THEN [ok |-> FALSE, called |-> TRUE, vector |-> <<>>]
    ELSE [ok |-> TRUE, called |-> TRUE,
          vector |-> IF er.hasVector THEN er.vector ELSE <<>>]

(***************************************************************************)
(* vectorize_text                                                          *)
(***************************************************************************)
vectorize_text(text, e, er) ==
    IF ~Truthy(e["AZURE_AI_VISION_ENDPOINT"]) \/ ~Truthy(e["AZURE_AI_VISION_KEY"])
    THEN [ok |-> FALSE, called |-> FALSE, vector |-> <<>>]
    ELSE IF er.status = 0
    THEN [ok |-> FALSE, called |-> TRUE, vector |-> <<>>]
    ELSE IF er.status # 200
    THEN [ok |-> FALSE, called |-> TRUE, vector |-> <<>>]
    ELSE LET vector == IF er.hasVector THEN er.vector ELSE <<>>
         IN  IF vector = <<>>
             THEN [ok |-> FALSE, called |-> TRUE, vector |-> <<>>]
             ELSE [ok |-> TRUE, called |-> TRUE, vector |-> vector]

(***************************************************************************)
(* get_image_analysis_client, analyze_image                                *)
(***************************************************************************)
get_image_analysis_client(e) ==
    Truthy(e["AZURE_AI_VISION_ENDPOINT"]) /\ Truthy(e["AZURE_AI_VISION_KEY"])

analyze_image(image_url, ar) ==
    IF ar.ok THEN [ok |-> TRUE, data |-> ar.result]
    ELSE [ok |-> FALSE, data |-> NoAnalysis]

(***************************************************************************)
(* process_image_complete: one try block around both calls; any exception  *)
(* is logged and re-raised.                                                *)
(***************************************************************************)
EnrichFailed(embedCalled, embedOk, analyzeCalled) ==
    [ok |-> FALSE, embedCalled |-> embedCalled, embedOk |-> embedOk,
     analyzeCalled |-> analyzeCalled, analyzeOk |-> FALSE,
     vector_embedding |-> <<>>, analysis |-> NoAnalysis]

Enriched(vector_data, analysis_data) ==
    [ok |-> TRUE, embedCalled |-> TRUE, embedOk |-> TRUE,
     analyzeCalled |-> TRUE, analyzeOk |-> TRUE,
     vector_embedding |-> vector_data.vector,
     analysis |-> analysis_data.data]

AfterAnalysis(vector_data, analysis_data) ==
    IF ~analysis_data.ok
    THEN EnrichFailed(TRUE, TRUE, TRUE)
    ELSE Enriched(vector_data, analysis_data)

AfterEmbedding(image_url, e, ar, vector_data) ==
    IF ~vector_data.ok
    THEN EnrichFailed(vector_data.called, FALSE, FALSE)
    ELSE IF ~get_image_analysis_client(e)
    THEN EnrichFailed(TRUE, TRUE, FALSE)
    ELSE AfterAnalysis(vector_data, analyze_image(image_url, ar))

\* faulty variant: a failed call is tolerated and the other call's result is kept
TolerantMerge(vector_data, analysis_data) ==
    IF ~vector_data.ok /\ ~analysis_data.ok
    THEN EnrichFailed(vector_data.called, FALSE, analysis_data.called)
    ELSE [ok |-> TRUE, embedCalled |-> vector_data.called,
          embedOk |-> vector_data.ok,
          analyzeCalled |-> analysis_data.called, analyzeOk |-> analysis_data.ok,
          vector_embedding |-> vector_data.vector,
          analysis |-> analysis_data.data]

process_image_complete_tolerant(image_url, e, er, ar) ==
    TolerantMerge(vectorize_image_embedding(image_url, e, er),
                  IF get_image_analysis_client(e)
                  THEN [called |-> TRUE] @@ analyze_image(image_url, ar)
                  ELSE [called |-> FALSE, ok |-> FALSE, data |-> NoAnalysis])

process_image_complete(image_url, e, er, ar) ==
    AfterEmbedding(image_url, e, ar, vectorize_image_embedding(image_url, e, er))

(***************************************************************************)
(* The search index: a set of documents keyed by "id".  upload_documents   *)
(* inserts the document or replaces the one with the same key.             *)
(***************************************************************************)
IMAGE_NAMESPACE == "6ba7b810-9dad-11d1-80b4-00c04fd430c8"

\* uuid.uuid5: a name-based hash of (namespace, name), modelled as the pair
\* itself: deterministic, and distinct names give distinct ids
generate_document_id(image_name) == <<"uuid5", IMAGE_NAMESPACE, image_name>>

get_search_client(e) ==
    /\ Truthy(e["AZURE_SEARCH_ENDPOINT"])
    /\ Truthy(e["AZURE_SEARCH_ADMIN_KEY"])
    /\ Truthy(e["AZURE_SEARCH_INDEX_NAME"])

\* faulty variant: the key is derived from the content as well as the name
UploadDocument_keyed_by_content(image_name, url, vector) ==
    [id |-> generate_document_id(<<image_name, vector>>),
     filename |-> image_name,
     url |-> url,
     vector_content |-> vector]

UploadDocument(image_name, url, vector) ==
    [id |-> generate_document_id(image_name),
     filename |-> image_name,
     url |-> url,
     vector_content |-> vector]

IndexUpload(idx, document) ==
    {d \in idx : d.id # document.id} \cup {document}

\* the per-document status the service reports: 200 for a document that
\* replaced one with the same key, 201 for a new one
UploadStatus(idx, document) ==
    IF \E d \in idx : d.id = document.id THEN 200 ELSE 201

(***************************************************************************)
(* upload: never raises; the result dict's "success" and the index after.  *)
(***************************************************************************)
upload(image_name, url, vector, e, ur, idx) ==
    IF ~get_search_client(e)
    THEN [success |-> FALSE, sent |-> FALSE, status_code |-> 0, index |-> idx]
    ELSE IF ur = "exception"
    THEN [success |-> FALSE, sent |-> TRUE, status_code |-> 0, index |-> idx]
    ELSE IF ur = "empty"
    THEN [success |-> FALSE, sent |-> TRUE, status_code |-> 0, index |-> idx]
    ELSE IF ur = "rejected"
    THEN [success |-> FALSE, sent |-> TRUE, status_code |-> 400, index |-> idx]
    ELSE [success |-> TRUE, sent |-> TRUE,
          status_code |-> UploadStatus(idx, UploadDocument(image_name, url, vector)),
          index |-> IndexUpload(idx, UploadDocument(image_name, url, vector))]

(***************************************************************************)
(* The record of the last handler run: its input, the calls it issued and  *)
(* how it ended.                                                           *)
(***************************************************************************)
NoResponse == [status |-> -1, hasVector |-> FALSE, vector |-> <<>>]

NoBody == [kind |-> "none", items |-> {}, text |-> <<>>]

Blank ==
    [handler |-> "none", event_type |-> "", subject |-> <<>>,
     parsed |-> FALSE, url |-> <<>>, eligible |-> FALSE,
     embedCalled |-> FALSE, embedOk |-> FALSE, er |-> NoResponse,
     analyzeCalled |-> FALSE, analyzeOk |-> FALSE,
     enriched |-> FALSE, vector |-> <<>>, analysis |-> NoAnalysis,
     image_name |-> <<>>,
     uploadCalled |-> FALSE, uploadSent |-> FALSE, uploadOk |-> FALSE,
     uploadStatus |-> 0,
     raised |-> FALSE, outcome |-> "",
     body |-> NoBody, status |-> 0, message |-> "",
     searchCalled |-> FALSE, searchError |-> "", similar_images |-> <<>>]

(***************************************************************************)
(* process_blob                                                            *)
(***************************************************************************)
\* faulty variant: the event type is not checked
ProcessBlobHead_any_event(event_type, subject, e) ==
    LET start == [Blank EXCEPT !.handler = "process_blob",
                               !.event_type = event_type,
                               !.subject = subject]
        parse == extract_blob_url_from_subject(subject, e)
        parsed == [start EXCEPT !.parsed = TRUE, !.url = parse.url]
    IN  IF ~parse.ok
        THEN [done |-> TRUE, run |-> [start EXCEPT !.outcome = "parse_failed"]]
        ELSE IF ~is_image_file(parse.url)
        THEN [done |-> TRUE, run |-> [parsed EXCEPT !.outcome = "skipped_not_image"]]
        ELSE [done |-> FALSE, run |-> [parsed EXCEPT !.eligible = TRUE]]

\* lines 18-45: the event-type check, the subject parse and the
\* eligibility check; done when the handler returns there
ProcessBlobHead(event_type, subject, e) ==
    LET start == [Blank EXCEPT !.handler = "process_blob",
                               !.event_type = event_type,
                               !.subject = subject]
    IN
    IF event_type # S_BlobCreated
    THEN [done |-> TRUE, run |-> [start EXCEPT !.outcome = "skipped_event_type"]]
    ELSE
    LET parse == extract_blob_url_from_subject(subject, e)
    IN
    IF ~parse.ok
    THEN [done |-> TRUE, run |-> [start EXCEPT !.outcome = "parse_failed"]]
    ELSE
    LET blob_url == parse.url
        parsed   == [start EXCEPT !.parsed = TRUE, !.url = blob_url]
    IN
    IF ~is_image_file(blob_url)
    THEN [done |-> TRUE, run |-> [parsed EXCEPT !.outcome = "skipped_not_image"]]
    ELSE [done |-> FALSE, run |-> [parsed EXCEPT !.eligible = TRUE]]

\* lines 55-73: the image name, the upload and the logging of its result
UploadStage(called, processing_result, image_name, upload_result) ==
    [run |-> [called EXCEPT !.enriched = TRUE,
                            !.vector = processing_result.vector_embedding,
                            !.analysis = processing_result.analysis,
                            !.image_name = image_name,
                            !.uploadCalled = TRUE,
                            !.uploadSent = upload_result.sent,
                            !.uploadOk = upload_result.success,
                            !.uploadStatus = upload_result.status_code,
                            !.outcome = IF upload_result.success
                                        THEN "uploaded" ELSE "upload_failed"],
     index |-> upload_result.index]

\* faulty variant: a failed enrichment is not caught at line 75; it reaches
\* the outer handler, which logs and re-raises to the event transport
EnrichStage_unguarded(head, er, ur, e, idx, processing_result, image_name) ==
    IF ~processing_result.ok
    THEN [run |-> [head EXCEPT !.embedCalled = processing_result.embedCalled,
                               !.embedOk = processing_result.embedOk,
                               !.er = IF processing_result.embedCalled
                                      THEN er ELSE NoResponse,
                               !.analyzeCalled = processing_result.analyzeCalled,
                               !.analyzeOk = processing_result.analyzeOk,
                               !.raised = TRUE,
                               !.outcome = "raised"],
          index |-> idx]
    ELSE UploadStage([head EXCEPT !.embedCalled = processing_result.embedCalled,
                                  !.embedOk = processing_result.embedOk,
                                  !.er = er,
                                  !.analyzeCalled = processing_result.analyzeCalled,
                                  !.analyzeOk = processing_result.analyzeOk],
                     processing_result, image_name,
                     upload(image_name, head.url,
                            processing_result.vector_embedding, e, ur, idx))

EnrichStage(head, er, ur, e, idx, processing_result, image_name) ==
    IF ~processing_result.ok
    THEN [run |-> [head EXCEPT !.embedCalled = processing_result.embedCalled,
                               !.embedOk = processing_result.embedOk,
                               !.er = IF processing_result.embedCalled
                                      THEN er ELSE NoResponse,
                               !.analyzeCalled = processing_result.analyzeCalled,
                               !.analyzeOk = processing_result.analyzeOk,
                               !.outcome = "enrich_failed"],
          index |-> idx]
    ELSE UploadStage([head EXCEPT !.embedCalled = processing_result.embedCalled,
                                  !.embedOk = processing_result.embedOk,
                                  !.er = er,
                                  !.analyzeCalled = processing_result.analyzeCalled,
                                  !.analyzeOk = processing_result.analyzeOk],
                     processing_result, image_name,
                     upload(image_name, head.url,
                            processing_result.vector_embedding, e, ur, idx))

\* lines 47-77: enrichment and upload of an eligible image
ProcessBlobBody(head, er, ar, ur, e, idx) ==
    EnrichStage(head, er, ur, e, idx,
                process_image_complete(head.url, e, er, ar),
                LastOf(Split(head.url, "/")))

(***************************************************************************)
(* The index service's vector search.  A request naming a field the index  *)
(* does not define is rejected by the service; otherwise the k documents   *)
(* nearest to the query vector are returned, best score first.             *)
(***************************************************************************)
IndexSchema == {"id", "filename", "url", "vector_content"}

SearchResponses == {"exception", "answered"}

DefaultTopK == 5

RECURSIVE DotFrom(_, _, _)
DotFrom(u, v, i) ==
    IF i > Len(u) \/ i > Len(v) THEN 0
    ELSE u[i] * v[i] + DotFrom(u, v, i + 1)

\* the similarity score of two vectors
Dot(u, v) == DotFrom(u, v, 1)

RECURSIVE Ranked(_, _, _, _)
Ranked(docs, field, qv, k) ==
    IF docs = {} \/ k = 0 THEN <<>>
    ELSE LET best == CHOOSE d \in docs :
                         \A o \in docs : Dot(d[field], qv) >= Dot(o[field], qv)
         IN  <<best>> \o Ranked(docs \ {best}, field, qv, k - 1)

SearchService(idx, field, select, k, qv, sr) ==
    IF sr = "exception"
    THEN [ok |-> FALSE, error |-> "ServiceRequestError", hits |-> <<>>]
    ELSE IF field \notin IndexSchema \/ ~(select \subseteq IndexSchema)
    THEN [ok |-> FALSE, error |-> "HttpResponseError", hits |-> <<>>]
    ELSE [ok |-> TRUE, error |-> "", hits |-> Ranked(idx, field, qv, k)]

\* result.get(name) on a hit: None for a field the hit does not carry
DocGet(d, name) == IF name \in DOMAIN d THEN d[name] ELSE None

(***************************************************************************)
(* search_similar_images: never raises; any failure gives the empty list.  *)
(***************************************************************************)
\* the exception search_similar_images meets, if any: ValueError from
\* get_search_client (lines 23-36), or whatever search_client.search raises
SearchError(e, results) ==
    IF ~get_search_client(e) THEN "ValueError"
    ELSE results.error

\* faulty variant: the exception is logged and re-raised to the caller
search_similar_images_raising(query_vector, top_k, e, sr, idx) ==
    LET results == SearchService(idx, "vector",
                                 {"id", "image_name", "image_url"},
                                 top_k, query_vector, sr)
    IN  [sent |-> get_search_client(e), raised |-> SearchError(e, results) # "",
         error |-> SearchError(e, results), similar_images |-> <<>>]

\* lines 114-158. raised: an exception leaves the function (never: line 156
\* catches every Exception and line 158 returns the empty list); error: the
\* exception that was caught and logged.
search_similar_images(query_vector, top_k, e, sr, idx) ==
    IF ~get_search_client(e)
    THEN [sent |-> FALSE, raised |-> FALSE, error |-> "ValueError",
          similar_images |-> <<>>]
    ELSE LET results == SearchService(idx, "vector",
                                      {"id", "image_name", "image_url"},
                                      top_k, query_vector, sr)
         IN  IF ~results.ok
             THEN [sent |-> TRUE, raised |-> FALSE,
                   error |-> SearchError(e, results),
                   similar_images |-> <<>>]
             ELSE [sent |-> TRUE, raised |-> FALSE, error |-> "",
                   similar_images |->
                       [i \in 1..Len(results.hits) |->
                           [id         |-> DocGet(results.hits[i], "id"),
                            image_name |-> DocGet(results.hits[i], "image_name"),
                            image_url  |-> DocGet(results.hits[i], "image_url"),
                            score      |-> Dot(results.hits[i]["vector"], query_vector)]]]

(***************************************************************************)
(* Request bodies of the query endpoint, as req.get_json() sees them:      *)
(* unparseable (ValueError), or a JSON value: null, a number, a boolean,   *)
(* a string, an array of strings, or an object (items: its keys, text: the *)
(* value under "query").                                                   *)
(***************************************************************************)
S_query == <<"q","u","e","r","y">>
S_cat == <<"c","a","t">>

Bodies ==
    { [kind |-> "invalid", items |-> {}, text |-> <<>>],
      [kind |-> "null",    items |-> {}, text |-> <<>>],
      [kind |-> "number",  items |-> {}, text |-> <<>>],
      [kind |-> "bool",    items |-> {}, text |-> <<>>],
      [kind |-> "string",  items |-> {}, text |-> S_query],
      [kind |-> "string",  items |-> {}, text |-> S_cat],
      [kind |-> "array",   items |-> {}, text |-> <<>>],
      [kind |-> "array",   items |-> {S_query}, text |-> <<>>],
      [kind |-> "object",  items |-> {}, text |-> <<>>],
      [kind |-> "object",  items |-> {S_cat}, text |-> <<>>],
      [kind |-> "object",  items |-> {S_query}, text |-> S_cat],
      [kind |-> "object",  items |-> {S_query, S_cat}, text |-> S_cat] }

IsSubstring(needle, hay) ==
    \E i \in 1..(Len(hay) + 1) :
        /\ i + Len(needle) - 1 <= Len(hay)
        /\ SubSeq(hay, i, i + Len(needle) - 1) = needle

\* Python's  'query' in req_body : key of a dict, element of a list,
\* substring of a str; a TypeError for a number or a boolean
QueryIn(body) ==
    IF body.kind = "object" THEN (IF S_query \in body.items THEN "true" ELSE "false")
    ELSE IF body.kind = "array" THEN (IF S_query \in body.items THEN "true" ELSE "false")
    ELSE IF body.kind = "string"
         THEN (IF IsSubstring(S_query, body.text) THEN "true" ELSE "false")
    ELSE "TypeError"

\* Python's  req_body['query'] : defined for a dict only
QuerySubscript(body) ==
    IF body.kind = "object" THEN [ok |-> TRUE, value |-> body.text]
    ELSE [ok |-> FALSE, value |-> <<>>]

(***************************************************************************)
(* query_endpoint                                                          *)
(***************************************************************************)
\* lines 88-113: validation of the request body; done when the handler
\* answers there
QueryEndpointHead(body) ==
    LET start == [Blank EXCEPT !.handler = "query_endpoint", !.body = body]
        InternalError == [start EXCEPT !.status = 500,
                                       !.message = "Internal server error"]
    IN
    IF body.kind = "invalid"
    THEN [done |-> TRUE, query |-> <<>>,
          run |-> [start EXCEPT !.status = 400,
                                !.message = "Invalid JSON in request body"]]
    ELSE IF body.kind = "null"
    THEN [done |-> TRUE, query |-> <<>>,
          run |-> [start EXCEPT !.status = 400,
                                !.message = "Request body is required"]]
    ELSE IF QueryIn(body) = "TypeError"
    THEN [done |-> TRUE, query |-> <<>>, run |-> InternalError]
    ELSE IF QueryIn(body) = "false"
    THEN [done |-> TRUE, query |-> <<>>,
          run |-> [start EXCEPT !.status = 400,
                       !.message = "Missing required field 'query' in request body"]]
    ELSE IF ~QuerySubscript(body).ok
    THEN [done |-> TRUE, query |-> <<>>, run |-> InternalError]
    ELSE [done |-> FALSE, query |-> QuerySubscript(body).value, run |-> start]

\* lines 119-137: the answer once the search has returned (found), or the
\* outer handler's answer to an exception that left the search
QueryEndpointAnswer(run, found) ==
    IF found.raised
    THEN [run EXCEPT !.searchCalled = found.sent,
                     !.searchError = found.error,
                     !.status = 500,
                     !.message = "Internal server error"]
    ELSE [run EXCEPT !.searchCalled = found.sent,
                     !.searchError = found.error,
                     !.similar_images = found.similar_images,
                     !.status = 200,
                     !.message = "Query received successfully"]

\* lines 115-137: text embedding, vector search and the response
QueryEndpointBody(head, query, er, sr, e, idx) ==
    LET vector == vectorize_text(query, e, er)
    IN
    IF ~vector.ok
    THEN [head EXCEPT !.embedCalled = vector.called,
                      !.er = IF vector.called THEN er ELSE NoResponse,
                      !.status = 500,
                      !.message = "Internal server error"]
    ELSE
    QueryEndpointAnswer([head EXCEPT !.embedCalled = TRUE, !.embedOk = TRUE,
                                     !.er = er, !.vector = vector.vector],
                        search_similar_images(vector.vector, DefaultTopK,
                                              e, sr, idx))

(***************************************************************************)
(* Events delivered to the pipeline.                                       *)
(***************************************************************************)
EventTypes == {S_BlobCreated, "Microsoft.Storage.BlobDeleted"}

Sub(parts) == Join(parts, "/")

N_a == <<"a">>
N_b == <<"b">>
N_p == <<"p">>
N_c_tif == <<"c",".","t","i","f">>
N_d_TIF == <<"d",".","T","I","F">>
N_n_txt == <<"n",".","t","x","t">>
N_noext == <<"n","o","e","x","t">>
N_svc == <<"s">>
N_def == <<"d">>

\* subjects of the pipeline runs: well-formed ones (two folders holding the
\* same file name, an upper-case extension, a container named "blobs",
\* non-images) and malformed ones
Subjects ==
    { Sub(<< <<>>, N_svc, N_def, S_containers, N_p, S_blobs, N_a, N_c_tif >>),
      Sub(<< <<>>, N_svc, N_def, S_containers, N_p, S_blobs, N_b, N_c_tif >>),
      Sub(<< <<>>, N_svc, N_def, S_containers, N_p, S_blobs, N_d_TIF >>),
      Sub(<< <<>>, N_svc, N_def, S_containers, S_blobs, S_blobs, N_c_tif >>),
      Sub(<< <<>>, N_svc, N_def, S_containers, N_p, S_blobs, N_n_txt >>),
      Sub(<< <<>>, N_svc, N_def, S_containers, N_p, S_blobs, N_noext >>),
      <<>>,
      Sub(<< <<>>, N_svc, N_def, S_containers, N_p, N_a, N_c_tif >>),
      Sub(<< <<>>, N_svc, N_def, N_p, S_blobs, N_a, N_c_tif >>),
      Sub(<< <<>>, N_svc, N_def, N_p, S_blobs, N_c_tif, S_containers >>),
      Sub(<< <<>>, N_svc, N_def, S_containers, N_p, S_blobs >>) }

(***************************************************************************)
(* The function app: events and queries arrive in any order.               *)
(***************************************************************************)
Init ==
    /\ env \in Envs
    /\ index = {}
    /\ last = Blank
    /\ arg = <<>>

EndRun(r) ==
    /\ last' = r.run
    /\ index' = r.index
    /\ UNCHANGED <<env, arg>>

\* the handler's run on one event: its head, and for an eligible image
\* its body with the answers of the services it calls
DeliverEvent(head) ==
    IF head.done
    THEN /\ last' = head.run
         /\ UNCHANGED <<env, index, arg>>
    ELSE \E er \in EmbeddingResponses, ar \in AnalysisResponses,
            ur \in UploadResponses :
             EndRun(ProcessBlobBody(head.run, er, ar, ur, env, index))

process_blob ==
    \E event_type \in EventTypes, subject \in Subjects :
        DeliverEvent(ProcessBlobHead(event_type, subject, env))

DeliverQuery(head) ==
    IF head.done
    THEN /\ last' = head.run
         /\ UNCHANGED <<env, index, arg>>
    ELSE \E er \in EmbeddingResponses, sr \in SearchResponses :
             /\ last' = QueryEndpointBody(head.run, head.query, er, sr, env, index)
             /\ UNCHANGED <<env, index, arg>>

query_endpoint ==
    \E body \in Bodies : DeliverQuery(QueryEndpointHead(body))

Next == process_blob \/ query_endpoint

Spec == Init /\ [][Next]_vars

(***************************************************************************)
(* One event on a fresh index, the subject drawn from every sequence of at *)
(* most MaxSegs segments over a small segment alphabet.                    *)
(***************************************************************************)
Segments == { <<>>, S_containers, S_blobs, N_c_tif }

GeneratedSubjects ==
    { Sub(parts) : parts \in UNION { [1..n -> Segments] : n \in 1..MaxSegs } }

EventEnvs == { EnvAllSet, [EnvAllSet EXCEPT !["AZURE_STORAGE_ACCOUNT_NAME"] = None] }

InitEvent ==
    /\ env \in EventEnvs
    /\ index = {}
    /\ last = Blank
    /\ arg \in [event_type : EventTypes, subject : GeneratedSubjects]

deliver_event ==
    /\ last.handler = "none"
    /\ DeliverEvent(ProcessBlobHead(arg.event_type, arg.subject, env))

NextEvent == deliver_event

SpecEvent == InitEvent /\ [][NextEvent]_vars

(***************************************************************************)
(* The eligibility filter on the URL of every object name of at most       *)
(* MaxNameLen characters over a small character alphabet.                  *)
(***************************************************************************)
NameChars == {"t", "i", "f", "T", ".", "/", "?"}

NameUrl(name) == S_https \o S_acct \o S_blob_domain \o N_p \o <<"/">> \o name

GeneratedUrls ==
    { NameUrl(name) : name \in UNION { [1..n -> NameChars] : n \in 0..MaxNameLen } }

InitEligible ==
    /\ env = EnvAllSet
    /\ index = {}
    /\ last = Blank
    /\ arg \in GeneratedUrls

check_eligible ==
    /\ last.handler = "none"
    /\ last' = [Blank EXCEPT !.handler = "is_image_file",
                             !.url = arg,
                             !.eligible = is_image_file(arg)]
    /\ UNCHANGED <<env, index, arg>>

NextEligible == check_eligible

SpecEligible == InitEligible /\ [][NextEligible]_vars

(***************************************************************************)
(* Properties.                                                             *)
(***************************************************************************)
IsEvent == last.handler = "process_blob"

IsCreated == IsEvent /\ last.event_type = S_BlobCreated

NoCalls == ~last.embedCalled /\ ~last.analyzeCalled /\ ~last.uploadCalled

C3_DistinctUrlsKeepTheirDocuments ==
    [][ (last'.handler = "process_blob" /\ last'.outcome = "uploaded")
        => \A d \in index : d.url # last'.url => d \in index' ]_vars

\* C4 as stated: an embedding call whose 200 response carries no vector
\* field fails, in both clients, and no document with an empty vector is
\* in the index.  The code violates it for vectorize_image_embedding.
C4_MissingVectorFails ==
    /\ (last.embedCalled /\ last.er.status = 200 /\ ~last.er.hasVector)
          => ~last.embedOk
    /\ (last.embedCalled /\ last.er.status # 200) => ~last.embedOk
    /\ \A d \in index : d.vector_content # <<>>

MalformedAsClaimed(subject) ==
    \/ subject = <<>>
    \/ ~Contains(Split(subject, "/"), S_containers)
    \/ ~Contains(Split(subject, "/"), S_blobs)
    \/ LastOf(Split(subject, "/")) \in {S_containers, S_blobs}

MalformedFirstOccurrence(subject) ==
    \/ subject = <<>>
    \/ ~Contains(Split(subject, "/"), S_containers)
    \/ ~Contains(Split(subject, "/"), S_blobs)
    \/ Find(Split(subject, "/"), S_containers) = Len(Split(subject, "/"))
    \/ Find(Split(subject, "/"), S_blobs) = Len(Split(subject, "/"))

\* C5 as stated: a blob-created event whose subject is empty, misses the
\* containers or the blobs segment, or has either as its final segment
\* ends at the parse step.  The code violates it: a final blobs or
\* containers segment that follows an earlier occurrence is parsed as part
\* of the object name.
C5_MalformedEndsAtParse ==
    (IsCreated /\ MalformedAsClaimed(last.subject)) =>
        (last.outcome = "parse_failed" /\ ~last.parsed /\ NoCalls /\ index = {})

\* C5 as amended: a blob-created event whose subject is empty, misses the
\* containers or the blobs segment, or has the first containers or the
\* first blobs segment as its final segment ends at the parse step: parse
\* fails, no embedding call, no analysis call and no index write is issued.
C5_FirstOccurrenceEndsAtParse ==
    (IsCreated /\ MalformedFirstOccurrence(last.subject)) =>
        (last.outcome = "parse_failed" /\ ~last.parsed /\ NoCalls /\ index = {})

\* a subject of six or more segments whose only blobs segment is the last
C5_Witness ==
    /\ IsCreated /\ last.outcome = "parse_failed"
    /\ Len(Split(last.subject, "/")) >= 6
    /\ Contains(Split(last.subject, "/"), S_containers)
    /\ Find(Split(last.subject, "/"), S_blobs) = Len(Split(last.subject, "/"))

\* the eligibility rule in the claims' words: the path has a "." and what
\* follows its last ".", lower-cased, is an image extension
EligibleAsClaimed(path) ==
    /\ Contains(path, ".")
    /\ Lower(SubSeq(path, RFind(path, ".") + 1, Len(path))) \in image_extensions

\* C6: a run for an event that is not blob-created, or whose resource URL
\* is not eligible, is skipped: it does not raise, issues no embedding,
\* analysis or upload call and leaves the index empty.
C6_SkippedSilently ==
    (IsEvent /\ (\/ last.event_type # S_BlobCreated
                 \/ (last.parsed /\ ~EligibleAsClaimed(UrlPath(last.url))))) =>
        /\ last.outcome \in {"skipped_event_type", "skipped_not_image"}
        /\ ~last.raised /\ NoCalls /\ index = {}

\* a parsed URL that is not an image
C6_Witness ==
    /\ IsCreated /\ last.parsed /\ ~last.eligible
    /\ last.outcome = "skipped_not_image"

\* C7: re-processing is idempotent on the index: the index never holds two
\* documents for one resource URL, and after a successful run it holds
\* exactly one document for the run's URL, carrying the run's vector.
C7_LastWriteWins ==
    /\ \A d1, d2 \in index : d1.url = d2.url => d1 = d2
    /\ (IsEvent /\ last.outcome = "uploaded") =>
          /\ Cardinality({d \in index : d.url = last.url}) = 1
          /\ \E d \in index : /\ d.url = last.url
                              /\ d.filename = last.image_name
                              /\ d.vector_content = last.vector

\* a successful run that replaced the document of an earlier run
C7_Witness ==
    /\ IsEvent /\ last.outcome = "uploaded" /\ last.uploadStatus = 200
    /\ last.vector \in Vectors

\* C8 as stated: a body that is unparseable, null or not a JSON object is
\* answered with a client error, a JSON object without the query key with
\* the client error naming the field, and neither reaches the embedding or
\* the index service.  The code violates it for a number, a boolean, and a
\* string or array that contains "query".
C8_BadBodyIsClientError ==
    (last.handler = "query_endpoint") =>
        /\ (last.body.kind # "object") =>
              /\ last.status \in 400..499
              /\ ~last.embedCalled /\ ~last.searchCalled
        /\ (last.body.kind = "object" /\ S_query \notin last.body.items) =>
              /\ last.status = 400
              /\ last.message = "Missing required field 'query' in request body"
              /\ ~last.embedCalled /\ ~last.searchCalled

WellFormedAsClaimed(parts) ==
    /\ Find(parts, S_containers) > 0
    /\ Find(parts, S_containers) + 3 <= Len(parts)
    /\ parts[Find(parts, S_containers) + 2] = S_blobs

UrlAsClaimed(parts, account) ==
    S_https \o account \o S_blob_domain
        \o parts[Find(parts, S_containers) + 1] \o <<"/">>
        \o Join(SubSeq(parts, Find(parts, S_containers) + 3, Len(parts)), "/")

\* C9 as stated: with a storage account configured, every subject holding
\* containers, a segment C, blobs and one or more segments B1..Bn parses to
\* https://{account}.blob.core.windows.net/C/B1/.../Bn.  The code violates it.
C9_ParsesToContainerAndBlob ==
    (/\ IsCreated
     /\ Truthy(env["AZURE_STORAGE_ACCOUNT_NAME"])
     /\ last.subject # <<>>
     /\ WellFormedAsClaimed(Split(last.subject, "/"))) =>
        /\ last.parsed
        /\ last.url = UrlAsClaimed(Split(last.subject, "/"),
                                   env["AZURE_STORAGE_ACCOUNT_NAME"])

\* C10: is_image_file is true exactly when the URL's path has a "." and
\* what follows the last ".", lower-cased, is one of the image extensions.
C10_EligibleIffImageExtension ==
    (last.handler = "is_image_file") =>
        (last.eligible <=> EligibleAsClaimed(UrlPath(last.url)))

\* an eligible URL whose extension holds an upper-case letter
C10_Witness ==
    /\ last.handler = "is_image_file" /\ last.eligible
    /\ Contains(UrlPath(last.url), "T")

IsQuery == last.handler = "query_endpoint"

\* the query's text was embedded and the index query then failed: the search
\* configuration is incomplete, or the call to the search service raised
SearchFailed == IsQuery /\ last.embedOk /\ last.searchError # ""

\* C11: when the index query fails, by a transport error or by missing index
\* configuration, search_similar_images returns the empty list instead of
\* raising, and query_endpoint answers 200 "Query received successfully"
\* with an empty similar_images, not an error.
C11_FailedSearchAnswersEmpty ==
    SearchFailed =>
        /\ last.status = 200
        /\ last.message = "Query received successfully"
        /\ last.similar_images = <<>>

\* a query answered 200 with no hits although the call to the search service
\* raised a transport error
C11_Witness ==
    /\ SearchFailed /\ last.searchCalled
    /\ last.searchError = "ServiceRequestError"
    /\ last.status = 200 /\ last.similar_images = <<>>

\* the same without search configuration: no call is issued
C11_WitnessNoConfiguration ==
    /\ SearchFailed /\ ~last.searchCalled
    /\ last.searchError = "ValueError"
    /\ last.status = 200 /\ last.similar_images = <<>>

\* the run of an eligible blob-created event whose enrichment failed
EnrichmentFailed(run) ==
    /\ run.handler = "process_blob" /\ run.eligible /\ ~run.enriched

\* the run of an eligible blob-created event whose upsert failed: upload
\* found no search configuration, its call raised, or the service answered
\* with no result or with a rejection
UpsertFailed(run) ==
    /\ run.handler = "process_blob" /\ run.eligible
    /\ run.uploadCalled /\ ~run.uploadOk

\* C12: for an eligible blob-created event, neither a failed enrichment nor
\* a failed or rejected index upsert propagates out of process_blob: the run
\* ends with the failure recorded and without raising to the event
\* transport, the index is left as it was, and after a failed enrichment
\* upload is not called at all.
C12_FailuresStayInside ==
    [][ /\ (last'.handler = "process_blob" /\ last'.eligible) => ~last'.raised
        /\ EnrichmentFailed(last') =>
              /\ last'.outcome = "enrich_failed"
              /\ ~last'.uploadCalled /\ ~last'.uploadSent
              /\ index' = index
        /\ UpsertFailed(last') =>
              /\ last'.outcome = "upload_failed"
              /\ index' = index ]_vars

\* an eligible event whose embedding call failed, delivered when the index
\* already holds a document: the run ended without raising and without upload
C12_Witness ==
    /\ EnrichmentFailed(last) /\ last.embedCalled /\ ~last.embedOk
    /\ last.outcome = "enrich_failed" /\ ~last.raised
    /\ ~last.uploadCalled /\ index # {}

\* an eligible, enriched event whose upsert the service rejected
C12_WitnessRejectedUpsert ==
    /\ UpsertFailed(last) /\ last.uploadSent /\ last.uploadStatus = 400
    /\ last.outcome = "upload_failed" /\ ~last.raised

\* a query whose text was embedded and whose search request reached the
\* index service and was not lost in transport, over a non-empty index
SearchReachedIndex ==
    /\ IsQuery /\ last.embedOk /\ last.searchCalled
    /\ last.searchError # "ServiceRequestError"
    /\ index # {}

\* the hit reports document d: its id, its filename as name, its url as url
ReportsDocument(hit, d) ==
    /\ hit.id = d.id
    /\ hit.image_name = d.filename
    /\ hit.image_url = d.url

\* C13 as stated: writer and reader agree on the document schema.  A
\* document written by upload with filename f, url u and a vector is
\* searched by search_similar_images on the vector field it was written to,
\* so a search that reaches a non-empty index is accepted and returns hits,
\* and every hit reports name f and url u of a stored document.  The code
\* violates it.
C13_WriterAndReaderAgree ==
    SearchReachedIndex =>
        /\ last.searchError = ""
        /\ last.similar_images # <<>>
        /\ \A i \in DOMAIN last.similar_images :
              \E d \in index : ReportsDocument(last.similar_images[i], d)

=============================================================================
